---- MODULE Spec2Model ----
(***************************************************************************)
(* Model of combine_taxonomy.py: the reconciliation of two taxonomic       *)
(* identifications (MIDORI = source A, BOLD = source B) of one specimen,   *)
(* and the driver main() that joins the two tables and writes the output;  *)
(* and of clean_fasta_headers of bold_to_apscale.py, which rewrites the    *)
(* header lines of a FASTA file.                                           *)
(*                                                                         *)
(* A row (a Python dict) is a function from column names to cell values.   *)
(* A cell value is a string; the float nan that pandas.read_csv yields for *)
(* an empty cell is the value NaN, and Python's None is the value None.    *)
(***************************************************************************)
EXTENDS Naturals, Integers, Sequences, FiniteSets, TLC

\* ------------------------------------------------------------------------
\* Values
\* ------------------------------------------------------------------------

\* float nan, as read_csv loads an empty cell
NaN == "NaN"

\* Python's None
None == "None"

\* the empty dict
EmptyRow == [k \in {} |-> ""]

\* levels = ['Kingdom', ..., 'Species'], 1-based here (Python: 0-based)
Levels == <<"Kingdom", "Phylum", "Class", "Order", "Family", "Genus", "Species">>

NumLevels == 7

\* levels.index(level), 1-based
LevelIndex(level) == CHOOSE i \in 1..NumLevels : Levels[i] = level

\* ['Phylum', 'Class', 'Order', 'Family', 'Genus', 'Species']
LowerLevels == {Levels[i] : i \in 2..NumLevels}

\* str.lower() on the strings that occur as rank values
LowerTable ==
  ("Animalia" :> "animalia") @@ ("Plantae" :> "plantae") @@
  ("Arthropoda" :> "arthropoda") @@ ("Chordata" :> "chordata") @@
  ("Insecta" :> "insecta") @@ ("Arachnida" :> "arachnida") @@
  ("Diptera" :> "diptera") @@ ("Coleoptera" :> "coleoptera") @@
  ("Carabidae" :> "carabidae") @@ ("Culicidae" :> "culicidae") @@
  ("Carabus" :> "carabus") @@ ("Culex" :> "culex") @@
  ("Carabus auratus" :> "carabus auratus") @@ ("Culex pipiens" :> "culex pipiens")

Lower(v) == IF v \in DOMAIN LowerTable THEN LowerTable[v] ELSE v

\* pd.notna(v) and v != '' and v != 'no-match'
HasValue(v) == v # NaN /\ v # "" /\ v # "no-match"

\* v == 'no-match' or v == '' or pd.isna(v)
IsNoMatch(v) == v = "no-match" \/ v = "" \/ v = NaN

\* Python's a != b on cell values: nan compares unequal to everything,
\* itself included; strings and None compare by value
PyNotEqual(a, b) == IF a = NaN \/ b = NaN THEN TRUE ELSE a # b

\* dict.get(key, default)
Get(row, key, default) == IF key \in DOMAIN row THEN row[key] ELSE default

\* ------------------------------------------------------------------------
\* get_taxonomy_level
\* ------------------------------------------------------------------------

RECURSIVE TaxonomyLevelScan(_, _)
\* the loop over enumerate(reversed(levels)), from position i on
TaxonomyLevelScan(row, i) ==
  IF i = NumLevels THEN 0
  ELSE LET level == Levels[NumLevels - i]
       IN  IF level \in DOMAIN row /\ row[level] # "" /\ row[level] # NaN
              /\ row[level] # "no-match"
           THEN 7 - i
           ELSE TaxonomyLevelScan(row, i + 1)

\* get_taxonomy_level counting the ranks from Kingdom down to the first one
\* without a value
get_taxonomy_level_ToFirstGap(row) ==
  LET present(i) == Levels[i] \in DOMAIN row /\ row[Levels[i]] # ""
                    /\ row[Levels[i]] # NaN /\ row[Levels[i]] # "no-match"
  IN  Cardinality({i \in 1..NumLevels : \A j \in 1..i : present(j)})

get_taxonomy_level(row) == TaxonomyLevelScan(row, 0)

\* ------------------------------------------------------------------------
\* find_common_level
\* ------------------------------------------------------------------------

\* OnMismatch without the Phylum exception: every mismatch goes up one level
OnMismatch_NoPhylumCase(midori_row, bold_row, i, mv, bv) ==
  IF i - 1 >= 1
     /\ Levels[i - 1] \in DOMAIN midori_row
     /\ Levels[i - 1] \in DOMAIN bold_row
  THEN <<Levels[i - 1], midori_row[Levels[i - 1]], bold_row[Levels[i - 1]]>>
  ELSE <<None, None, None>>

\* OnMismatch reporting the disagreeing level itself at every rank
OnMismatch_SameLevel(midori_row, bold_row, i, mv, bv) == <<Levels[i], mv, bv>>

\* "If they don't match, return the previous level": what the walk returns
\* when the values mv, bv at Levels[i] are both present and differ
OnMismatch(midori_row, bold_row, i, mv, bv) ==
  IF Levels[i] = "Phylum" THEN <<"Phylum", mv, bv>>
  ELSE
    IF i - 1 >= 1
       /\ Levels[i - 1] \in DOMAIN midori_row
       /\ Levels[i - 1] \in DOMAIN bold_row
    THEN <<Levels[i - 1], midori_row[Levels[i - 1]], bold_row[Levels[i - 1]]>>
    ELSE <<None, None, None>>

RECURSIVE CommonLevelWalk(_, _, _, _, _, _)
\* the loop over reversed(levels) from Levels[i] on, with the loop's three
\* locals; yields the returned triple
CommonLevelWalk(midori_row, bold_row, i, common_level, midori_value, bold_value) ==
  IF i = 0 THEN <<common_level, midori_value, bold_value>>
  ELSE
    LET level == Levels[i] IN
    IF level = "Kingdom" /\ level \notin DOMAIN bold_row
    THEN CommonLevelWalk(midori_row, bold_row, i - 1, common_level, midori_value, bold_value)
    ELSE IF level \in DOMAIN midori_row /\ level \in DOMAIN bold_row
    THEN
      LET mv == midori_row[level]
          bv == bold_row[level]
      IN
      IF HasValue(mv) /\ HasValue(bv)
      THEN
        IF Lower(mv) = Lower(bv)
        THEN CommonLevelWalk(midori_row, bold_row, i - 1, level, mv, bv)
        ELSE OnMismatch(midori_row, bold_row, i, mv, bv)
      ELSE CommonLevelWalk(midori_row, bold_row, i - 1, common_level, mv, bv)
    ELSE CommonLevelWalk(midori_row, bold_row, i - 1, common_level, midori_value, bold_value)

find_common_level(midori_row, bold_row) ==
  CommonLevelWalk(midori_row, bold_row, NumLevels, None, None, None)

\* ------------------------------------------------------------------------
\* get_best_identification
\* ------------------------------------------------------------------------

\* result column |-> MIDORI column it is read from
MidoriColumns ==
  ("MIDORI_Similarity" :> "Similarity") @@ ("MIDORI_evalue" :> "evalue") @@
  ("MIDORI_Flag" :> "Flag") @@ ("MIDORI_Ambigous_taxa" :> "Ambigous taxa") @@
  ("MIDORI_Status" :> "Status")

\* result column |-> BOLD column it is read from
BoldColumns ==
  ("BOLD_pct_identity" :> "pct_identity") @@ ("BOLD_status" :> "status") @@
  ("BOLD_records" :> "records") @@ ("BOLD_selected_level" :> "selected_level") @@
  ("BOLD_BIN" :> "BIN") @@ ("BOLD_flags" :> "flags")

\* result['MIDORI_x'] = midori_row.get('x', '') for the five MIDORI columns
MidoriSpecific(midori_row) ==
  [c \in DOMAIN MidoriColumns |-> Get(midori_row, MidoriColumns[c], "")]

\* result['BOLD_x'] = bold_row.get('x', '') for the six BOLD columns
BoldSpecific(bold_row) ==
  [c \in DOMAIN BoldColumns |-> Get(bold_row, BoldColumns[c], "")]

\* result['MIDORI_x'] = '' for the five MIDORI columns
EmptyMidori == [c \in DOMAIN MidoriColumns |-> ""]

\* result['BOLD_x'] = '' for the six BOLD columns
EmptyBold == [c \in DOMAIN BoldColumns |-> ""]

\* NoMatch with Kingdom among the levels tested
NoMatch_WithKingdom(row) ==
  \A level \in {Levels[i] : i \in 1..NumLevels} \cap DOMAIN row : IsNoMatch(row[level])

\* all(... for level in [Phylum..Species] if level in row)
NoMatch(row) ==
  \A level \in LowerLevels \cap DOMAIN row : IsNoMatch(row[level])

\* CopyLevels normalising the case of what it copies
CopyLevels_Lowered(row, levels) == [level \in levels \cap DOMAIN row |-> Lower(row[level])]

\* for level in levels: if level in row: result[level] = row[level]
CopyLevels(row, levels) == [level \in levels \cap DOMAIN row |-> row[level]]

\* KingdomFromMidori without the backfill
KingdomFromMidori_Never(midori_row) == EmptyRow

\* "Add Kingdom from MIDORI if available"
KingdomFromMidori(midori_row) ==
  IF "Kingdom" \in DOMAIN midori_row /\ midori_row["Kingdom"] # NaN
     /\ midori_row["Kingdom"] # "" /\ midori_row["Kingdom"] # "no-match"
  THEN [level \in {"Kingdom"} |-> midori_row["Kingdom"]]
  ELSE EmptyRow

\* the taxonomy of a result tagged MIDORI
UseMidori(midori_row) == CopyLevels(midori_row, {Levels[i] : i \in 1..NumLevels})

\* UseBold reading the levels from the MIDORI row
UseBold_FromMidori(midori_row, bold_row) ==
  CopyLevels(midori_row, LowerLevels) @@ KingdomFromMidori(midori_row)

\* the taxonomy of a result tagged BOLD: Kingdom from MIDORI when it has a
\* value there, Phylum..Species from BOLD (BOLD's Kingdom is never read)
UseBold(midori_row, bold_row) ==
  CopyLevels(bold_row, LowerLevels) @@ KingdomFromMidori(midori_row)

RECURSIVE FirstCommon(_, _, _)
\* the search from Kingdom down that runs when find_common_level found none:
\* the first level at which both have a value and the values match
FirstCommon(midori_row, bold_row, i) ==
  IF i > NumLevels THEN <<None, None, None>>
  ELSE
    LET level == Levels[i] IN
    IF level \in DOMAIN midori_row /\ level \in DOMAIN bold_row
       /\ HasValue(midori_row[level]) /\ HasValue(bold_row[level])
       /\ Lower(midori_row[level]) = Lower(bold_row[level])
    THEN <<level, midori_row[level], bold_row[level]>>
    ELSE FirstCommon(midori_row, bold_row, i + 1)

\* common_level, midori_value, bold_value as they stand before "result = {}"
CommonForResult(midori_row, bold_row) ==
  LET found == find_common_level(midori_row, bold_row) IN
  IF found[1] = None
  THEN LET first == FirstCommon(midori_row, bold_row, 1)
       IN  IF first[1] # None THEN first ELSE found
  ELSE found

\* "if common_level and midori_level == bold_level and midori_value != bold_value"
MustReset(common, midori_level, bold_level) ==
  /\ common[1] # None
  /\ midori_level = bold_level
  /\ PyNotEqual(common[2], common[3])

\* "Clear values for more specific levels"
ResetAfter(taxonomy, common_level) ==
  [level \in DOMAIN taxonomy |->
     IF LevelIndex(level) > LevelIndex(common_level) THEN "" ELSE taxonomy[level]]

\* the taxonomy part of the result, third branch
BestTaxonomy(midori_row, bold_row) ==
  LET midori_level == get_taxonomy_level(midori_row)
      bold_level == get_taxonomy_level(bold_row)
      common == CommonForResult(midori_row, bold_row)
      copied == IF midori_level > bold_level
                THEN UseMidori(midori_row)
                ELSE UseBold(midori_row, bold_row)
  IN  IF MustReset(common, midori_level, bold_level)
      THEN ResetAfter(copied, common[1])
      ELSE copied

\* BestSource giving a tie to MIDORI
BestSource_TieToMidori(midori_row, bold_row) ==
  IF get_taxonomy_level(midori_row) >= get_taxonomy_level(bold_row)
  THEN "MIDORI" ELSE "BOLD"

\* the source tag of the third branch
BestSource(midori_row, bold_row) ==
  IF get_taxonomy_level(midori_row) > get_taxonomy_level(bold_row)
  THEN "MIDORI" ELSE "BOLD"

\* 1 = use MIDORI (BOLD all no-match), 2 = use BOLD (MIDORI all no-match),
\* 3 = compare the two
Branch(midori_row, bold_row) ==
  IF NoMatch(bold_row) /\ ~NoMatch(midori_row) THEN 1
  ELSE IF NoMatch(midori_row) /\ ~NoMatch(bold_row) THEN 2
  ELSE 3

get_best_identification(midori_row, bold_row) ==
  IF Branch(midori_row, bold_row) = 1
  THEN UseMidori(midori_row) @@ ("ID_source" :> "MIDORI")
       @@ MidoriSpecific(midori_row) @@ EmptyBold
  ELSE IF Branch(midori_row, bold_row) = 2
  THEN UseBold(midori_row, bold_row) @@ ("ID_source" :> "BOLD")
       @@ EmptyMidori @@ BoldSpecific(bold_row)
  ELSE BestTaxonomy(midori_row, bold_row)
       @@ ("ID_source" :> BestSource(midori_row, bold_row))
       @@ MidoriSpecific(midori_row) @@ BoldSpecific(bold_row)

\* ------------------------------------------------------------------------
\* Input records
\* ------------------------------------------------------------------------

\* the most holes (an absent rank above a present one, below Kingdom) in the
\* two records of a pair together
MaxHoles == 1

\* the most ranks below Kingdom at which BOLD names another taxon
MaxDiffer == 1

\* the names MIDORI gives, by level
Name1 == <<"Animalia", "Arthropoda", "Insecta", "Diptera", "Carabidae",
           "Carabus", "Carabus auratus">>

\* the names of another lineage, by level
Name2 == <<"Plantae", "Chordata", "Arachnida", "Coleoptera", "Culicidae",
           "Culex", "Culex pipiens">>

\* the three ways a cell holds no identification
AbsentMarks == {"no-match", "", NaN}

\* the diagnostic columns of a MIDORI row
MidoriDiagnostics ==
  ("Similarity" :> "98.7") @@ ("evalue" :> "2e-90") @@ ("Flag" :> "F3") @@
  ("Ambigous taxa" :> "Carabus sp.") @@ ("Status" :> "accepted")

\* the diagnostic columns of a BOLD row
BoldDiagnostics ==
  ("pct_identity" :> "99.2") @@ ("status" :> "match") @@ ("records" :> "12") @@
  ("selected_level" :> "species") @@ ("BIN" :> "BOLD:AAA1234") @@ ("flags" :> "none")

\* the sets of levels below Kingdom a record can fill: Phylum down to some
\* depth, less at most h holes
Shapes(h) ==
  { (2..d) \ H : <<d, H>> \in
      { <<d, H>> \in (1..NumLevels) \X SUBSET (2..NumLevels) :
          H \subseteq 2..(d - 1) /\ Cardinality(H) <= h } }

\* a taxonomy over all seven levels: filled levels carry names[i], the rest
\* the absent mark
Taxonomy(filled, names, absent) ==
  [level \in {Levels[i] : i \in 1..NumLevels} |->
     IF LevelIndex(level) \in filled THEN names[LevelIndex(level)] ELSE absent]

\* the number of holes of a shape
Holes(shape) ==
  Cardinality({i \in 2..NumLevels : i \notin shape /\ \E j \in shape : j > i})

\* a MIDORI record: Name1 at the filled levels, with its diagnostics
MidoriRecord(filled, absent) ==
  Taxonomy(filled, Name1, absent) @@ MidoriDiagnostics

\* BOLD's names: Name1 as written or in lower case, Name2 at the levels in
\* differ
BoldNames(lower, differ) ==
  [i \in 1..NumLevels |->
     IF i \in differ THEN Name2[i]
     ELSE IF lower THEN Lower(Name1[i]) ELSE Name1[i]]

\* the sets of filled levels at which BOLD can differ: Kingdom freely, at
\* most MaxDiffer of the others
DifferSets(filled) ==
  { D \in SUBSET filled : Cardinality(D \ {1}) <= MaxDiffer }

\* drop the Kingdom column (BOLD's schema may lack it)
WithoutKingdom(row) == [c \in DOMAIN row \ {"Kingdom"} |-> row[c]]

\* a BOLD record, with or without the Kingdom column, with its diagnostics
BoldRecord(filled, lower, differ, absent, kingdom_column) ==
  LET row == Taxonomy(filled, BoldNames(lower, differ), absent) @@ BoldDiagnostics
  IN  IF kingdom_column THEN row ELSE WithoutKingdom(row)

\* ------------------------------------------------------------------------
\* State
\* ------------------------------------------------------------------------

VARIABLES
  pc,               \* where the program stands
  midori_file,      \* the file at args.midori_file
  bold_file,        \* the file at args.bold_file
  output_file,      \* the file at args.output_file
  printed,          \* the error message printed, "" when none
  midori_df,        \* the MIDORI table as loaded
  bold_df,          \* the BOLD table as loaded
  combined_results, \* the list of result dicts
  processed,        \* the number of MIDORI rows processed
  midori_row,       \* the MIDORI record at hand
  bold_row,         \* the BOLD record at hand
  levels,           \* <<midori_level, bold_level>> of get_taxonomy_level
  common,           \* <<common_level, midori_value, bold_value>> of find_common_level
  best_id           \* the dict get_best_identification returned

\* clean_fasta_headers
VARIABLES
  infile,           \* the lines of input_fasta
  infile_pos,       \* the number of lines the loop has read
  outfile,          \* the lines written to output_fasta
  process_to_bin,   \* dict: written header -> BIN
  sequence_count,   \* the number of header lines counted
  seen_process_ids, \* dict: ProcessID -> number of repeats seen
  duplicate_count   \* the number of headers renamed

fasta_vars == <<infile, infile_pos, outfile, process_to_bin, sequence_count,
                seen_process_ids, duplicate_count>>

vars == <<pc, midori_file, bold_file, output_file, printed, midori_df, bold_df,
          combined_results, processed, midori_row, bold_row, levels, common, best_id,
          fasta_vars>>

\* the empty dict of clean_fasta_headers
EmptyDict == <<>>

\* clean_fasta_headers not called
FastaIdle ==
  /\ infile = <<>> /\ infile_pos = 0 /\ outfile = <<>>
  /\ process_to_bin = EmptyDict /\ sequence_count = 0
  /\ seen_process_ids = EmptyDict /\ duplicate_count = 0

driver_vars == <<midori_file, bold_file, output_file, printed, midori_df, bold_df,
                 combined_results, processed>>

\* no file at the path
NoFile == [exists |-> FALSE, columns |-> {}, rows |-> <<>>]

\* a table not loaded yet
NoFrame == [columns |-> {}, rows |-> <<>>]

\* ------------------------------------------------------------------------
\* The three functions, each applied to a pair of records
\* ------------------------------------------------------------------------

PairInit ==
  /\ pc = "call"
  /\ \E absent \in AbsentMarks :
     \E shapeA \in Shapes(MaxHoles), kingdomA \in {{}, {1}} :
     \E shapeB \in Shapes(MaxHoles - Holes(shapeA)), kingdomB \in {{}, {1}} :
     \E lower \in BOOLEAN, differ \in DifferSets(shapeB \cup kingdomB),
        kingdom_column \in BOOLEAN :
       /\ midori_row = MidoriRecord(shapeA \cup kingdomA, absent)
       /\ bold_row = BoldRecord(shapeB \cup kingdomB, lower, differ, absent,
                                kingdom_column)
  /\ levels = <<None, None>>
  /\ common = <<None, None, None>>
  /\ best_id = EmptyRow
  /\ midori_file = NoFile /\ bold_file = NoFile /\ output_file = NoFile
  /\ printed = ""
  /\ midori_df = NoFrame /\ bold_df = NoFrame
  /\ combined_results = <<>> /\ processed = 0
  /\ FastaIdle

Call_get_taxonomy_level ==
  /\ pc = "call"
  /\ pc' = "get_taxonomy_level"
  /\ levels' = <<get_taxonomy_level(midori_row), get_taxonomy_level(bold_row)>>
  /\ UNCHANGED <<midori_row, bold_row, common, best_id, driver_vars, fasta_vars>>

Call_find_common_level ==
  /\ pc = "call"
  /\ pc' = "find_common_level"
  /\ common' = find_common_level(midori_row, bold_row)
  /\ UNCHANGED <<midori_row, bold_row, levels, best_id, driver_vars, fasta_vars>>

Call_get_best_identification ==
  /\ pc = "call"
  /\ pc' = "get_best_identification"
  /\ best_id' = get_best_identification(midori_row, bold_row)
  /\ UNCHANGED <<midori_row, bold_row, levels, common, driver_vars, fasta_vars>>

PairNext ==
  \/ Call_get_taxonomy_level
  \/ Call_find_common_level
  \/ Call_get_best_identification

PairSpec == PairInit /\ [][PairNext]_vars

\* ------------------------------------------------------------------------
\* main
\* ------------------------------------------------------------------------

\* the most rows of an input table
MaxRows == 2

\* the specimen identifiers
Keys == {"ESV_1", "ESV_2", "ESV_3"}

\* the names under which a table can carry its identifier: the two aliases,
\* and a name that is neither
IdColumns == {"unique ID", "id", "sample"}

\* the taxonomies of the MIDORI rows of a table: nothing, or all seven ranks
TableMidoriShapes == {{}, 1..NumLevels}

\* the taxonomies of the BOLD rows of a table: nothing, or all seven ranks
TableBoldShapes == {{}, 1..NumLevels}

\* the lists of at most MaxRows rows with pairwise different identifiers
RECURSIVE KeyedRows(_, _, _)
KeyedRows(id_column, records, n) ==
  IF n = 0 THEN {<<>>}
  ELSE LET shorter == KeyedRows(id_column, records, n - 1)
       IN  shorter \cup
           { Append(rows, (id_column :> key) @@ record) :
               <<rows, key, record>> \in
                 { t \in shorter \X Keys \X records :
                     /\ Len(t[1]) = n - 1
                     /\ \A i \in 1..Len(t[1]) : t[1][i][id_column] # t[2] } }

\* the MIDORI files: a table with an identifier column and the seven ranks
MidoriFiles ==
  { [exists |-> TRUE,
     columns |-> {id_column} \cup DOMAIN MidoriRecord({}, NaN),
     rows |-> rows] :
      <<id_column, rows>> \in
        UNION { {id} \X KeyedRows(id, {MidoriRecord(shape, NaN) : shape \in TableMidoriShapes},
                                  MaxRows) : id \in IdColumns } }

\* drop the diagnostic columns (a BOLD table may lack them)
WithoutDiagnostics(row) == [c \in DOMAIN row \ DOMAIN BoldDiagnostics |-> row[c]]

\* a BOLD row of a table: in lower case, with or without the Kingdom column,
\* with or without the diagnostic columns
TableBoldRecord(shape, kingdom_column, diagnostics) ==
  LET row == BoldRecord(shape, TRUE, {}, NaN, kingdom_column)
  IN  IF diagnostics THEN row ELSE WithoutDiagnostics(row)

\* the BOLD files: a table with an identifier column, with or without Kingdom,
\* with or without the diagnostic columns
BoldFiles ==
  { [exists |-> TRUE,
     columns |-> {t[1]} \cup DOMAIN TableBoldRecord({}, t[2], t[3]),
     rows |-> t[4]] :
      t \in UNION { {id} \X {k} \X {d} \X
                    KeyedRows(id, {TableBoldRecord(shape, k, d) : shape \in TableBoldShapes},
                              MaxRows) : <<id, k, d>> \in IdColumns \X BOOLEAN \X BOOLEAN } }

Init ==
  /\ pc = "main"
  /\ midori_file \in MidoriFiles \cup {NoFile}
  /\ bold_file \in BoldFiles \cup {NoFile}
  /\ output_file = NoFile
  /\ printed = ""
  /\ midori_df = NoFrame /\ bold_df = NoFrame
  /\ combined_results = <<>> /\ processed = 0
  /\ midori_row = EmptyRow /\ bold_row = EmptyRow
  /\ levels = <<None, None>>
  /\ common = <<None, None, None>>
  /\ best_id = EmptyRow
  /\ FastaIdle

\* pd.read_csv
read_csv(file) == [columns |-> file.columns, rows |-> file.rows]

\* rename a key of a dict
RenameKey(row, old, new) ==
  [c \in (DOMAIN row \ {old}) \cup {new} |-> IF c = new THEN row[old] ELSE row[c]]

\* df.rename(columns={old: new}, inplace=True)
Rename(df, old, new) ==
  [columns |-> (df.columns \ {old}) \cup {new},
   rows |-> [i \in 1..Len(df.rows) |-> RenameKey(df.rows[i], old, new)]]

\* UnifyIdColumn without the rename
UnifyIdColumn_NoRename(midori, bold) == bold

\* "Ensure the unique ID columns match"
UnifyIdColumn(midori, bold) ==
  IF "unique ID" \in midori.columns /\ "id" \in bold.columns
  THEN Rename(bold, "id", "unique ID")
  ELSE bold

\* bold_df[bold_df['unique ID'] == unique_id]
BoldMatch(df, unique_id) ==
  SelectSeq(df.rows, LAMBDA row : row["unique ID"] = unique_id)

\* ResultFor reconciling an unmatched row with an empty BOLD record
ResultFor_EmptyBold(row, bold_match) ==
  ("unique ID" :> row["unique ID"]) @@
  get_best_identification(row, IF Len(bold_match) > 0 THEN bold_match[1] ELSE EmptyRow)

\* ResultFor without "best_id['unique ID'] = unique_id"
ResultFor_NoKey(row, bold_match) ==
  IF Len(bold_match) > 0
  THEN get_best_identification([c \in DOMAIN row \ {"unique ID"} |-> row[c]], bold_match[1])
  ELSE ("ID_source" :> "MIDORI") @@ row

\* the dict appended for the MIDORI row: the best identification when BOLD has
\* the identifier, the MIDORI row itself otherwise
ResultFor(row, bold_match) ==
  IF Len(bold_match) > 0
  THEN ("unique ID" :> row["unique ID"]) @@ get_best_identification(row, bold_match[1])
  ELSE ("ID_source" :> "MIDORI") @@ row

\* the columns of pd.DataFrame(combined_results): every key of every dict
FrameColumns(results) == UNION {DOMAIN results[i] : i \in 1..Len(results)}

\* pd.DataFrame(combined_results): a cell a dict does not set is nan
DataFrame(results) ==
  [columns |-> FrameColumns(results),
   rows |-> [i \in 1..Len(results) |->
               [c \in FrameColumns(results) |-> Get(results[i], c, NaN)]]]

\* the head of column_order
ColumnOrder == <<"unique ID", "Kingdom", "Phylum", "Class", "Order", "Family",
                 "Genus", "Species", "ID_source">>

\* result_df[column_order] raises KeyError when a listed column is missing
KeyError(df) == \E i \in 1..Len(ColumnOrder) : ColumnOrder[i] \notin df.columns

\* to_csv writes nan as an empty field
CsvField(v) == IF v = NaN THEN "" ELSE v

\* result_df.to_csv(output_file, index=False): the nine leading columns in
\* order, then the remaining ones
to_csv(df) ==
  [exists |-> TRUE,
   leading |-> ColumnOrder,
   columns |-> df.columns,
   rows |-> [i \in 1..Len(df.rows) |->
               [c \in df.columns |-> CsvField(df.rows[i][c])]]]

pair_vars == <<levels, common>>

\* "MIDORI file does not exist"
MidoriFileMissing ==
  /\ pc = "main"
  /\ ~midori_file.exists
  /\ printed' = "Error: MIDORI file does not exist"
  /\ pc' = "returned"
  /\ UNCHANGED <<midori_file, bold_file, output_file, midori_df, bold_df,
                 combined_results, processed, midori_row, bold_row, best_id, pair_vars,
                 fasta_vars>>

\* "BOLD file does not exist"
BoldFileMissing ==
  /\ pc = "main"
  /\ midori_file.exists /\ ~bold_file.exists
  /\ printed' = "Error: BOLD file does not exist"
  /\ pc' = "returned"
  /\ UNCHANGED <<midori_file, bold_file, output_file, midori_df, bold_df,
                 combined_results, processed, midori_row, bold_row, best_id, pair_vars,
                 fasta_vars>>

\* read both files and unify the identifier column
ReadFiles ==
  /\ pc = "main"
  /\ midori_file.exists /\ bold_file.exists
  /\ midori_df' = read_csv(midori_file)
  /\ bold_df' = UnifyIdColumn(read_csv(midori_file), read_csv(bold_file))
  /\ pc' = "loaded"
  /\ UNCHANGED <<midori_file, bold_file, output_file, printed,
                 combined_results, processed, midori_row, bold_row, best_id, pair_vars,
                 fasta_vars>>

\* "'unique ID' column not found in one or both files"
IdColumnMissing ==
  /\ pc = "loaded"
  /\ "unique ID" \notin midori_df.columns \/ "unique ID" \notin bold_df.columns
  /\ printed' = "Error: 'unique ID' column not found in one or both files"
  /\ pc' = "returned"
  /\ UNCHANGED <<midori_file, bold_file, output_file, midori_df, bold_df,
                 combined_results, processed, midori_row, bold_row, best_id, pair_vars,
                 fasta_vars>>

\* combined_results = [], processed = 0
StartLoop ==
  /\ pc = "loaded"
  /\ "unique ID" \in midori_df.columns /\ "unique ID" \in bold_df.columns
  /\ combined_results' = <<>>
  /\ processed' = 0
  /\ pc' = "loop"
  /\ UNCHANGED <<midori_file, bold_file, output_file, printed, midori_df, bold_df,
                 midori_row, bold_row, best_id, pair_vars,
                 fasta_vars>>

\* one pass of the loop over midori_df.iterrows(), BOLD has the identifier
ProcessMatched ==
  /\ pc = "loop"
  /\ processed < Len(midori_df.rows)
  /\ LET row == midori_df.rows[processed + 1]
         bold_match == BoldMatch(bold_df, row["unique ID"])
     IN  /\ Len(bold_match) > 0
         /\ midori_row' = row
         /\ bold_row' = bold_match[1]
         /\ best_id' = ResultFor(row, bold_match)
         /\ combined_results' = Append(combined_results, ResultFor(row, bold_match))
  /\ processed' = processed + 1
  /\ UNCHANGED <<pc, midori_file, bold_file, output_file, printed, midori_df, bold_df,
                 pair_vars,
                 fasta_vars>>

\* one pass of the loop, BOLD does not have the identifier
ProcessUnmatched ==
  /\ pc = "loop"
  /\ processed < Len(midori_df.rows)
  /\ LET row == midori_df.rows[processed + 1]
         bold_match == BoldMatch(bold_df, row["unique ID"])
     IN  /\ Len(bold_match) = 0
         /\ midori_row' = row
         /\ combined_results' = Append(combined_results, ResultFor(row, bold_match))
  /\ processed' = processed + 1
  /\ UNCHANGED <<pc, midori_file, bold_file, output_file, printed, midori_df, bold_df,
                 bold_row, best_id, pair_vars,
                 fasta_vars>>

\* the loop is over: build the table, order the columns, write the file
Save ==
  /\ pc = "loop"
  /\ processed = Len(midori_df.rows)
  /\ ~KeyError(DataFrame(combined_results))
  /\ output_file' = to_csv(DataFrame(combined_results))
  /\ pc' = "done"
  /\ UNCHANGED <<midori_file, bold_file, printed, midori_df, bold_df,
                 combined_results, processed, midori_row, bold_row, best_id, pair_vars,
                 fasta_vars>>

\* the loop is over and result_df[column_order] raises: nothing is written
SaveRaises ==
  /\ pc = "loop"
  /\ processed = Len(midori_df.rows)
  /\ KeyError(DataFrame(combined_results))
  /\ printed' = "KeyError"
  /\ pc' = "raised"
  /\ UNCHANGED <<midori_file, bold_file, output_file, midori_df, bold_df,
                 combined_results, processed, midori_row, bold_row, best_id, pair_vars,
                 fasta_vars>>

Next ==
  \/ MidoriFileMissing
  \/ BoldFileMissing
  \/ ReadFiles
  \/ IdColumnMissing
  \/ StartLoop
  \/ ProcessMatched
  \/ ProcessUnmatched
  \/ Save
  \/ SaveRaises

Spec == Init /\ [][Next]_vars

\* ------------------------------------------------------------------------
\* clean_fasta_headers (bold_to_apscale.py)
\* ------------------------------------------------------------------------

\* A Python str is a sequence of characters, each a one-character string.

\* the characters str.strip() removes
Whitespace == {" ", "\t", "\n"}

RECURSIVE LStrip(_)
LStrip(s) == IF s # <<>> /\ Head(s) \in Whitespace THEN LStrip(Tail(s)) ELSE s

RECURSIVE RStrip(_)
RStrip(s) ==
  IF s # <<>> /\ s[Len(s)] \in Whitespace THEN RStrip(SubSeq(s, 1, Len(s) - 1)) ELSE s

\* s.strip()
Strip(s) == RStrip(LStrip(s))

\* s.startswith(c)
StartsWith(s, c) == s # <<>> /\ s[1] = c

\* c in s
Contains(s, c) == \E i \in 1..Len(s) : s[i] = c

\* s.split(c, 1), for s with c in it
SplitOnce(s, c) ==
  LET i == CHOOSE k \in 1..Len(s) : s[k] = c /\ \A j \in 1..(k - 1) : s[j] # c
  IN  <<SubSeq(s, 1, i - 1), SubSeq(s, i + 1, Len(s))>>

DecimalDigits == <<"0", "1", "2", "3", "4", "5", "6", "7", "8", "9">>

RECURSIVE Str(_)
\* str(n) of a natural number
Str(n) ==
  IF n < 10 THEN <<DecimalDigits[n + 1]>>
  ELSE Str(n \div 10) \o <<DecimalDigits[(n % 10) + 1]>>

\* f"{process_id}_{seen_process_ids[process_id]}"
Suffixed(id, n) == id \o <<"_">> \o Str(n)

\* f">{unique_process_id}\n"
HeaderLine(id) == <<">">> \o id \o <<"\n">>

\* d[k] = v
SetItem(d, k, v) == [x \in DOMAIN d \cup {k} |-> IF x = k THEN v ELSE d[x]]

\* the most lines of an input FASTA
MaxLines == 3

\* the ProcessIDs of the input headers: one plain, one that ends in _1
FastaIds == {<<"X">>, <<"X", "_", "1">>}

\* the BIN identifiers of the input headers
FastaBins == {<<"B">>, <<"C">>}

\* the lines an input FASTA is made of: headers ProcessID|BIN, headers
\* without a BIN, and a line of sequence
FastaLines ==
  {<<">">> \o id \o <<"|">> \o bin \o <<"\n">> : <<id, bin>> \in FastaIds \X FastaBins}
  \cup {<<">">> \o id \o <<"\n">> : id \in FastaIds}
  \cup {<<"A", "C", "G", "T", "\n">>}

\* the input files: up to MaxLines lines
FastaFiles == UNION {[1..n -> FastaLines] : n \in 0..MaxLines}

FastaInit ==
  /\ pc = "clean_fasta_headers"
  /\ infile \in FastaFiles
  /\ infile_pos = 0
  /\ outfile = <<>>
  /\ process_to_bin = EmptyDict
  /\ sequence_count = 0
  /\ seen_process_ids = EmptyDict
  /\ duplicate_count = 0
  /\ midori_file = NoFile /\ bold_file = NoFile /\ output_file = NoFile
  /\ printed = ""
  /\ midori_df = NoFrame /\ bold_df = NoFrame
  /\ combined_results = <<>> /\ processed = 0
  /\ midori_row = EmptyRow /\ bold_row = EmptyRow
  /\ levels = <<None, None>>
  /\ common = <<None, None, None>>
  /\ best_id = EmptyRow

combine_vars == <<driver_vars, midori_row, bold_row, best_id, pair_vars>>

\* "for line in infile": the line the loop reads next
NextLine == infile[infile_pos + 1]

\* one pass of the loop on a header ProcessID|BIN
HeaderWithBin ==
  /\ pc = "clean_fasta_headers"
  /\ infile_pos < Len(infile)
  /\ StartsWith(NextLine, ">")
  /\ LET header == Tail(Strip(NextLine)) IN
     /\ Contains(header, "|")
     /\ LET process_id == SplitOnce(header, "|")[1]
            bin_id == SplitOnce(header, "|")[2]
            duplicate == process_id \in DOMAIN seen_process_ids
            seen == IF duplicate THEN seen_process_ids[process_id] + 1 ELSE 0
            unique_process_id == IF duplicate THEN Suffixed(process_id, seen)
                                 ELSE process_id
        IN  /\ seen_process_ids' = SetItem(seen_process_ids, process_id, seen)
            /\ duplicate_count' = IF duplicate THEN duplicate_count + 1
                                  ELSE duplicate_count
            /\ process_to_bin' = SetItem(process_to_bin, unique_process_id, bin_id)
            /\ outfile' = Append(outfile, HeaderLine(unique_process_id))
            /\ sequence_count' = sequence_count + 1
  /\ infile_pos' = infile_pos + 1
  /\ UNCHANGED <<pc, infile, combine_vars>>

\* one pass of the loop on a header without '|'
HeaderWithoutBin ==
  /\ pc = "clean_fasta_headers"
  /\ infile_pos < Len(infile)
  /\ StartsWith(NextLine, ">")
  /\ LET header == Tail(Strip(NextLine)) IN
     /\ ~Contains(header, "|")
     /\ IF header \in DOMAIN seen_process_ids
        THEN LET seen == seen_process_ids[header] + 1
                 unique_header == Suffixed(header, seen)
             IN  /\ seen_process_ids' = SetItem(seen_process_ids, header, seen)
                 /\ duplicate_count' = duplicate_count + 1
                 /\ process_to_bin' = SetItem(process_to_bin, unique_header, header)
                 /\ outfile' = Append(outfile, HeaderLine(unique_header))
        ELSE /\ seen_process_ids' = SetItem(seen_process_ids, header, 0)
             /\ duplicate_count' = duplicate_count
             /\ process_to_bin' = SetItem(process_to_bin, header, header)
             /\ outfile' = Append(outfile, NextLine)
     /\ sequence_count' = sequence_count + 1
  /\ infile_pos' = infile_pos + 1
  /\ UNCHANGED <<pc, infile, combine_vars>>

\* one pass of the loop on a line that is no header
OtherLine ==
  /\ pc = "clean_fasta_headers"
  /\ infile_pos < Len(infile)
  /\ ~StartsWith(NextLine, ">")
  /\ outfile' = Append(outfile, NextLine)
  /\ infile_pos' = infile_pos + 1
  /\ UNCHANGED <<pc, infile, process_to_bin, sequence_count, seen_process_ids,
                 duplicate_count, combine_vars>>

\* "return sequence_count, process_to_bin"
ReturnMapping ==
  /\ pc = "clean_fasta_headers"
  /\ infile_pos = Len(infile)
  /\ pc' = "clean_fasta_headers returned"
  /\ UNCHANGED <<fasta_vars, combine_vars>>

FastaNext ==
  \/ HeaderWithBin
  \/ HeaderWithoutBin
  \/ OtherLine
  \/ ReturnMapping

FastaSpec == FastaInit /\ [][FastaNext]_vars

\* ------------------------------------------------------------------------
\* Vocabulary of the properties
\* ------------------------------------------------------------------------

RankNames == {Levels[i] : i \in 1..NumLevels}

\* both records offer Levels[i] and both hold a value there
BothPresentAt(i) ==
  /\ Levels[i] \in DOMAIN midori_row /\ Levels[i] \in DOMAIN bold_row
  /\ HasValue(midori_row[Levels[i]]) /\ HasValue(bold_row[Levels[i]])

AgreeAt(i) ==
  BothPresentAt(i) /\ Lower(midori_row[Levels[i]]) = Lower(bold_row[Levels[i]])

DifferAt(i) ==
  BothPresentAt(i) /\ Lower(midori_row[Levels[i]]) # Lower(bold_row[Levels[i]])

\* the walk from Species up stops at Levels[i]: the first present-and-
\* different pair it meets is there
WalkStopsAt(i) == DifferAt(i) /\ \A j \in (i + 1)..NumLevels : ~DifferAt(j)

\* the value the source the result is tagged with had at a level
ChosenValue(level) ==
  IF best_id["ID_source"] = "MIDORI" THEN midori_row[level] ELSE bold_row[level]

\* the record is absent at every level from Phylum to Species
AbsentBelowKingdom(row) ==
  \A level \in LowerLevels : level \in DOMAIN row => ~HasValue(row[level])

\* both absent below Kingdom, or neither: get_best_identification compares
\* the depths
DepthBranch ==
  AbsentBelowKingdom(midori_row) <=> AbsentBelowKingdom(bold_row)

Depth(row) ==
  LET present == {i \in 1..NumLevels : Levels[i] \in DOMAIN row /\ HasValue(row[Levels[i]])}
  IN  IF present = {} THEN 0 ELSE CHOOSE i \in present : \A j \in present : j <= i

Returned == pc = "get_best_identification"

\* ------------------------------------------------------------------------
\* C1
\* ------------------------------------------------------------------------

\* the case of C1: equal depths, the walk stops at a rank R in Class..Species
\* and find_common_level returns the rank above R
C1_Case(r) ==
  /\ Returned /\ DepthBranch
  /\ Depth(midori_row) = Depth(bold_row)
  /\ r \in 3..NumLevels /\ WalkStopsAt(r)
  /\ find_common_level(midori_row, bold_row)[1] = Levels[r - 1]

\* C1: in a same-depth pair whose walk stops at a differing rank R in
\* Class..Species with common rank C just above R, the result is empty at
\* every rank more specific than C and keeps the chosen source's values at C
\* and at every more general rank.
C1_TruncatesBelowCommon ==
  \A r \in 3..NumLevels :
    C1_Case(r) =>
      /\ \A j \in r..NumLevels :
           Levels[j] \in DOMAIN best_id => best_id[Levels[j]] = ""
      /\ \A j \in 1..(r - 1) :
           Levels[j] \in DOMAIN best_id /\ Levels[j] \in DOMAIN bold_row
             => best_id[Levels[j]] = ChosenValue(Levels[j])

\* ------------------------------------------------------------------------
\* C2
\* ------------------------------------------------------------------------

\* the two records are equal, letter case aside, at every rank both offer
C2_Case ==
  /\ Returned
  /\ \A level \in RankNames \cap DOMAIN midori_row \cap DOMAIN bold_row :
       Lower(midori_row[level]) = Lower(bold_row[level])

\* C2: for records that are equal under case-insensitive comparison at every
\* rank both offer, no rank of the result is cleared: a rank that is empty in
\* the result held no value in the chosen source.
C2_AgreementNeverTruncates ==
  C2_Case =>
    \A level \in RankNames \cap DOMAIN best_id \cap DOMAIN bold_row :
      best_id[level] = "" => ~HasValue(ChosenValue(level))

\* ------------------------------------------------------------------------
\* C3
\* ------------------------------------------------------------------------

\* the levels the walk visits: Kingdom only when BOLD offers it
Visited == {i \in 1..NumLevels : Levels[i] \in DOMAIN midori_row \cap DOMAIN bold_row}

\* the walk has run and met no present-and-different pair
C3_Case ==
  /\ pc = "find_common_level"
  /\ \A i \in Visited : ~DifferAt(i)

\* C3: when the walk completes without a disagreement, find_common_level
\* returns the most specific rank at which the two agree, with the two values
\* at that rank, and returns no rank iff no rank has both values present.
C3_ReturnsMostSpecificAgreement ==
  C3_Case =>
    LET agreed == {i \in Visited : AgreeAt(i)} IN
    IF agreed = {} THEN common[1] = None
    ELSE LET top == CHOOSE i \in agreed : \A j \in agreed : j <= i
         IN  common = <<Levels[top], midori_row[Levels[top]], bold_row[Levels[top]]>>

\* ------------------------------------------------------------------------
\* C4
\* ------------------------------------------------------------------------

\* the pair of the scenario: A resolved to Order (Diptera), B to Family
\* (Coleoptera, Carabidae); Kingdom is left open
C4_Scenario ==
  /\ midori_row["Phylum"] = "Arthropoda" /\ midori_row["Class"] = "Insecta"
  /\ midori_row["Order"] = "Diptera"
  /\ \A level \in {"Family", "Genus", "Species"} : midori_row[level] = "no-match"
  /\ bold_row["Phylum"] = "Arthropoda" /\ bold_row["Class"] = "Insecta"
  /\ bold_row["Order"] = "Coleoptera" /\ bold_row["Family"] = "Carabidae"
  /\ \A level \in {"Genus", "Species"} : ~HasValue(bold_row[level])

C5_Case ==
  /\ Returned
  /\ AbsentBelowKingdom(bold_row)
  /\ \E level \in LowerLevels : HasValue(midori_row[level])

\* C5: when B is absent at every rank of Phylum..Species and A is present at
\* one of them, the result is tagged MIDORI, carries A's value at every rank A
\* offers and A's diagnostic fields, and every BOLD diagnostic field is empty.
C5_MidoriWhenBoldAbsent ==
  C5_Case =>
    /\ best_id["ID_source"] = "MIDORI"
    /\ \A level \in RankNames \cap DOMAIN midori_row :
         level \in DOMAIN best_id /\ best_id[level] = midori_row[level]
    /\ \A c \in DOMAIN MidoriColumns :
         MidoriColumns[c] \in DOMAIN midori_row
           => best_id[c] = midori_row[MidoriColumns[c]]
    /\ \A c \in DOMAIN BoldColumns : best_id[c] = ""

C5_Witness ==
  /\ C5_Case
  /\ "Kingdom" \in DOMAIN bold_row /\ HasValue(bold_row["Kingdom"])
  /\ best_id["Species"] = "Carabus auratus"
  /\ best_id["BOLD_BIN"] = ""

\* ------------------------------------------------------------------------
\* C6
\* ------------------------------------------------------------------------

\* C6: when the first disagreement the walk meets is at Phylum,
\* find_common_level returns Phylum with the two Phylum values, whatever the
\* Kingdom values are.
C6_PhylumReportedAtPhylum ==
  pc = "find_common_level" /\ WalkStopsAt(2) =>
    common = <<"Phylum", midori_row["Phylum"], bold_row["Phylum"]>>

\* reached with the Kingdom values differing as well
C6_Witness ==
  /\ pc = "find_common_level" /\ WalkStopsAt(2) /\ DifferAt(1)
  /\ common[1] = "Phylum"

\* reached with Kingdom missing from BOLD
C6_WitnessNoKingdom ==
  /\ pc = "find_common_level" /\ WalkStopsAt(2) /\ "Kingdom" \notin DOMAIN bold_row
  /\ common[1] = "Phylum"

\* ------------------------------------------------------------------------
\* C7
\* ------------------------------------------------------------------------

\* the identifier column of the MIDORI table once the loop runs
MidoriKey(i) == midori_df.rows[i]["unique ID"]

\* BOLD has no row with the identifier of MIDORI row i
Unmatched(i) ==
  \A j \in 1..Len(bold_df.rows) : bold_df.rows[j]["unique ID"] # MidoriKey(i)

InLoopOrAfter == pc \in {"loop", "done", "raised"}

\* C7: a MIDORI row without a BOLD row yields one record with the row's seven
\* rank values, tagged MIDORI, with every BOLD diagnostic field empty (not set
\* in the record, an empty field in the file written), whatever the row's
\* depth.
C7_UnmatchedPassesThrough ==
  InLoopOrAfter =>
    /\ Len(combined_results) = processed
    /\ \A i \in 1..Len(combined_results) :
         Unmatched(i) =>
           /\ \A level \in RankNames :
                Get(combined_results[i], level, None) = midori_df.rows[i][level]
           /\ Get(combined_results[i], "ID_source", None) = "MIDORI"
           /\ \A c \in DOMAIN BoldColumns :
                Get(combined_results[i], c, "") = ""
           /\ pc = "done" =>
                /\ \A level \in RankNames :
                     output_file.rows[i][level] = CsvField(midori_df.rows[i][level])
                /\ output_file.rows[i]["ID_source"] = "MIDORI"
                /\ \A c \in DOMAIN BoldColumns \cap output_file.columns :
                     output_file.rows[i][c] = ""

\* an unmatched row of depth 0 next to a matched one, written to the file
C7_Witness ==
  /\ pc = "done"
  /\ \E i, j \in 1..Len(combined_results) :
       /\ Unmatched(i) /\ ~Unmatched(j)
       /\ Depth(midori_df.rows[i]) = 0
       /\ output_file.rows[i]["BOLD_BIN"] = ""

\* ------------------------------------------------------------------------
\* C8
\* ------------------------------------------------------------------------

AllProcessed == InLoopOrAfter /\ processed = Len(midori_df.rows)

\* one record per MIDORI row, in row order, under the row's identifier
C8_OnePerKey ==
  AllProcessed =>
    /\ Len(combined_results) = Len(midori_df.rows)
    /\ \A i \in 1..Len(combined_results) :
         Get(combined_results[i], "unique ID", None) = MidoriKey(i)
    /\ \A i, j \in 1..Len(combined_results) :
         i # j => Get(combined_results[i], "unique ID", None)
                    # Get(combined_results[j], "unique ID", None)

\* a record in the list stays as it is
C8_Appended ==
  \A i \in 1..Len(combined_results) :
    /\ Len(combined_results') >= i
    /\ combined_results'[i] = combined_results[i]

\* C8: after all rows are processed the list holds exactly one record for
\* each identifier of the MIDORI table, in the table's row order, and none
\* for an identifier only BOLD has; a record once appended is never changed.
C8_OneRecordPerMidoriKey == [](C8_OnePerKey) /\ [][C8_Appended]_vars

\* two MIDORI rows processed while BOLD holds an identifier MIDORI lacks
C8_Witness ==
  /\ AllProcessed /\ Len(combined_results) = 2
  /\ \E j \in 1..Len(bold_df.rows) :
       \A i \in 1..Len(midori_df.rows) : bold_df.rows[j]["unique ID"] # MidoriKey(i)
  /\ \E i \in 1..Len(midori_df.rows) : ~Unmatched(i)

\* ------------------------------------------------------------------------
\* C9
\* ------------------------------------------------------------------------

\* the file carries its identifier under one of the two aliases
HasAlias(file) == "unique ID" \in file.columns \/ "id" \in file.columns

\* the run stopped at an input check: message printed, nothing written
StoppedAtCheck ==
  /\ pc = "returned"
  /\ printed # ""
  /\ ~output_file.exists
  /\ combined_results = <<>>

\* the identifier columns are unified
Unified == "unique ID" \in midori_df.columns /\ "unique ID" \in bold_df.columns

\* C9 as stated: the run aborts exactly when a file is missing or a table has
\* its identifier under neither alias; otherwise the columns are unified and
\* the run goes on to the reconciliation.
C9_AbortsIffNoAlias ==
  LET valid == /\ midori_file.exists /\ bold_file.exists
               /\ HasAlias(midori_file) /\ HasAlias(bold_file)
  IN  /\ pc = "returned" => StoppedAtCheck /\ ~valid
      /\ InLoopOrAfter => valid /\ Unified

\* C9 as amended: the run stops at the input checks, with its message printed
\* and nothing written, exactly when a file is missing, the MIDORI table has
\* no 'unique ID' column, or the BOLD table has neither 'unique ID' nor 'id';
\* otherwise BOLD's 'id' is renamed to 'unique ID' and the run goes on to the
\* reconciliation.
C9_AbortsIffNotAccepted ==
  LET accepted == /\ midori_file.exists /\ bold_file.exists
                  /\ "unique ID" \in midori_file.columns
                  /\ HasAlias(bold_file)
  IN  /\ pc = "returned" => StoppedAtCheck /\ ~accepted
      /\ InLoopOrAfter => accepted /\ Unified

\* the run stopped although MIDORI carries 'id' and BOLD an alias
C9_Witness ==
  /\ StoppedAtCheck
  /\ midori_file.exists /\ bold_file.exists
  /\ "id" \in midori_file.columns /\ HasAlias(bold_file)

\* the run went on with BOLD's 'id' renamed
C9_WitnessRenamed ==
  /\ pc = "loop" /\ "id" \in bold_file.columns /\ Unified

\* ------------------------------------------------------------------------
\* C10
\* ------------------------------------------------------------------------

\* C10: once both tables are loaded with their identifier column, the run
\* does not fail: every MIDORI row is processed and one output table with the
\* columns identifier, Kingdom..Species, source tag is written.
C10_NeverFails ==
  /\ pc # "raised"
  /\ pc = "done" =>
       /\ processed = Len(midori_df.rows)
       /\ output_file.exists
       /\ Len(output_file.rows) = Len(midori_df.rows)
       /\ output_file.leading = ColumnOrder

\* ------------------------------------------------------------------------
\* C11
\* ------------------------------------------------------------------------

\* C11: get_best_identification never invents a value: at every rank the
\* result carries, its value is absent or empty, or it is the value MIDORI
\* or BOLD had at that same rank.
C11_NeverInvents ==
  Returned =>
    \A level \in RankNames \cap DOMAIN best_id :
      \/ ~HasValue(best_id[level])
      \/ level \in DOMAIN midori_row /\ best_id[level] = midori_row[level]
      \/ level \in DOMAIN bold_row /\ best_id[level] = bold_row[level]

\* a result that mixes the sources: Kingdom as MIDORI wrote it where BOLD
\* wrote it otherwise, and a lower rank as BOLD wrote it where MIDORI wrote
\* it otherwise
C11_Witness ==
  /\ Returned
  /\ "Kingdom" \in DOMAIN best_id /\ "Kingdom" \in DOMAIN bold_row
  /\ HasValue(best_id["Kingdom"])
  /\ best_id["Kingdom"] = midori_row["Kingdom"]
  /\ best_id["Kingdom"] # bold_row["Kingdom"]
  /\ \E level \in LowerLevels :
       /\ HasValue(best_id[level])
       /\ best_id[level] = bold_row[level]
       /\ best_id[level] # midori_row[level]

\* ------------------------------------------------------------------------
\* C12
\* ------------------------------------------------------------------------

\* C12: get_taxonomy_level returns the position, counted from Kingdom = 1 to
\* Species = 7, of the most specific rank at which the record holds a value,
\* and 0 when it holds none; a record with a value at Species has depth 7
\* whatever its other ranks hold.
C12_DepthIsMostSpecificPresent ==
  pc = "get_taxonomy_level" =>
    /\ levels[1] = Depth(midori_row)
    /\ levels[2] = Depth(bold_row)
    /\ HasValue(midori_row["Species"]) => levels[1] = 7
    /\ HasValue(bold_row["Species"]) => levels[2] = 7

\* MIDORI has a value at Species and none at a rank above it, and is given
\* depth 7; BOLD holds no value at all and is given depth 0
C12_Witness ==
  /\ pc = "get_taxonomy_level"
  /\ HasValue(midori_row["Species"])
  /\ \E level \in LowerLevels : ~HasValue(midori_row[level])
  /\ levels[1] = 7
  /\ \A level \in RankNames \cap DOMAIN bold_row : ~HasValue(bold_row[level])
  /\ levels[2] = 0

\* ------------------------------------------------------------------------
\* C13
\* ------------------------------------------------------------------------

\* BOLD offers Kingdom and holds a value there
BoldHasKingdom == "Kingdom" \in DOMAIN bold_row /\ HasValue(bold_row["Kingdom"])

\* C13: a result tagged BOLD carries BOLD's value at every rank BOLD offers,
\* Kingdom included (a rank below Kingdom may have been cleared by the
\* reset); its Kingdom is MIDORI's only when MIDORI holds a Kingdom value and
\* BOLD does not.
C13_BoldResultCarriesBold ==
  (Returned /\ best_id["ID_source"] = "BOLD") =>
    /\ \A level \in LowerLevels \cap DOMAIN bold_row :
         /\ level \in DOMAIN best_id
         /\ best_id[level] = bold_row[level] \/ best_id[level] = ""
    /\ IF BoldHasKingdom
       THEN "Kingdom" \in DOMAIN best_id /\ best_id["Kingdom"] = bold_row["Kingdom"]
       ELSE IF HasValue(midori_row["Kingdom"])
       THEN "Kingdom" \in DOMAIN best_id /\ best_id["Kingdom"] = midori_row["Kingdom"]
       ELSE "Kingdom" \in DOMAIN best_id => ~HasValue(best_id["Kingdom"])

\* ------------------------------------------------------------------------
\* C14
\* ------------------------------------------------------------------------

\* both records are absent at every rank from Phylum to Species
C14_Case ==
  Returned /\ AbsentBelowKingdom(midori_row) /\ AbsentBelowKingdom(bold_row)

\* C14 as stated: when both records are absent at every rank from Phylum to
\* Species the result is tagged BOLD and none of its seven ranks holds a
\* value, whatever the two Kingdom cells hold and whether or not BOLD offers
\* Kingdom.
C14_BothAbsentGivesEmptyBold ==
  C14_Case =>
    /\ best_id["ID_source"] = "BOLD"
    /\ \A level \in RankNames \cap DOMAIN best_id : ~HasValue(best_id[level])

\* C14 amended: when both records are absent at every rank from Phylum to
\* Species, no rank from Phylum to Species of the result holds a value; if
\* MIDORI holds no Kingdom value the result is tagged BOLD and has no
\* Kingdom; if MIDORI holds a Kingdom value the result carries it and is
\* tagged BOLD when BOLD holds a Kingdom value too, MIDORI otherwise.
C14_BothAbsentFollowsKingdom ==
  C14_Case =>
    /\ \A level \in LowerLevels \cap DOMAIN best_id : ~HasValue(best_id[level])
    /\ IF HasValue(midori_row["Kingdom"])
       THEN /\ "Kingdom" \in DOMAIN best_id
            /\ best_id["Kingdom"] = midori_row["Kingdom"]
            /\ best_id["ID_source"] = IF BoldHasKingdom THEN "BOLD" ELSE "MIDORI"
       ELSE /\ "Kingdom" \notin DOMAIN best_id
            /\ best_id["ID_source"] = "BOLD"

\* both absent below Kingdom, MIDORI alone holds a Kingdom value: the result
\* is tagged MIDORI and carries that value
C14_Witness ==
  /\ C14_Case
  /\ HasValue(midori_row["Kingdom"]) /\ ~BoldHasKingdom
  /\ best_id["ID_source"] = "MIDORI"
  /\ best_id["Kingdom"] = midori_row["Kingdom"]

\* ------------------------------------------------------------------------
\* C15
\* ------------------------------------------------------------------------

\* the source the depths select: MIDORI when strictly deeper, BOLD otherwise
DeeperSource == IF Depth(midori_row) > Depth(bold_row) THEN "MIDORI" ELSE "BOLD"

\* the record of the source the depths select
DeeperRow == IF DeeperSource = "MIDORI" THEN midori_row ELSE bold_row

\* C15: in the depth-comparison branch the result is tagged MIDORI exactly
\* when MIDORI's depth is greater than BOLD's, and BOLD otherwise, ties
\* included; from Phylum to Species the result holds the values of the
\* tagged source, except where the reset (which needs equal depths) cleared
\* them.
C15_DeeperSourceWins ==
  (Returned /\ DepthBranch) =>
    /\ best_id["ID_source"] = DeeperSource
    /\ \A level \in LowerLevels :
         /\ level \in DOMAIN best_id
         /\ \/ best_id[level] = DeeperRow[level]
            \/ Depth(midori_row) = Depth(bold_row) /\ best_id[level] = ""

\* a tie below Kingdom: the result is tagged BOLD and holds BOLD's name at a
\* rank where MIDORI names another taxon
C15_Witness ==
  /\ Returned /\ DepthBranch
  /\ Depth(midori_row) = Depth(bold_row) /\ Depth(bold_row) >= 2
  /\ best_id["ID_source"] = "BOLD"
  /\ \E level \in LowerLevels :
       /\ HasValue(midori_row[level]) /\ HasValue(bold_row[level])
       /\ Lower(midori_row[level]) # Lower(bold_row[level])
       /\ best_id[level] = bold_row[level]

\* MIDORI strictly deeper: the result is tagged MIDORI and holds MIDORI's
\* values from Phylum to Species
C15_WitnessMidori ==
  /\ Returned /\ DepthBranch
  /\ Depth(midori_row) > Depth(bold_row) /\ Depth(bold_row) >= 2
  /\ best_id["ID_source"] = "MIDORI"
  /\ \A level \in LowerLevels : best_id[level] = midori_row[level]

\* ------------------------------------------------------------------------
\* C16
\* ------------------------------------------------------------------------

\* the rank just above Levels[i]
RankAbove(i) == Levels[i - 1]

\* C16: when the walk from Species up first meets a present-and-different
\* pair at a rank from Class to Species, find_common_level returns the rank
\* just above it with the values the two records hold there, as they are
\* (present or not, equal or not), whatever agreement it met further down.
C16_MismatchReturnsRankAbove ==
  pc = "find_common_level" =>
    \A i \in 3..NumLevels :
      WalkStopsAt(i) =>
        common = <<RankAbove(i), midori_row[RankAbove(i)], bold_row[RankAbove(i)]>>

\* the walk stops at a rank below which the records agree, and the rank
\* above it, where one record holds no value, is returned with the raw values
C16_Witness ==
  /\ pc = "find_common_level"
  /\ \E i \in 3..NumLevels :
       /\ WalkStopsAt(i)
       /\ \E j \in (i + 1)..NumLevels : AgreeAt(j)
       /\ ~BothPresentAt(i - 1)
       /\ common[1] = RankAbove(i)
       /\ ~HasValue(common[2]) \/ ~HasValue(common[3])

\* ------------------------------------------------------------------------
\* C17
\* ------------------------------------------------------------------------

\* the positions of the header lines of a file
HeaderPositions(file) == {i \in 1..Len(file) : StartsWith(file[i], ">")}

\* the header a line of the output carries
WrittenHeader(i) == Tail(Strip(outfile[i]))

\* C17: when clean_fasta_headers returns, the headers it wrote are pairwise
\* different, so the mapping it returns has one entry for every header line
\* of the input, and as many entries as the sequence count it returns.
C17_HeadersDistinct ==
  pc = "clean_fasta_headers returned" =>
    /\ \A i, j \in HeaderPositions(outfile) :
         i # j => WrittenHeader(i) # WrittenHeader(j)
    /\ Cardinality(DOMAIN process_to_bin) = Cardinality(HeaderPositions(infile))
    /\ Cardinality(DOMAIN process_to_bin) = sequence_count

====
